---- MODULE Spec2Model ----
(***************************************************************************)
(* A model of lib/plastic.js: defineType, becomeType, isType and           *)
(* renounceType, acting on JavaScript objects (own properties plus the     *)
(* properties inherited from Object.prototype / Array.prototype) and on    *)
(* the _typeMethods / _typeProps maps stored on constructor functions.     *)
(***************************************************************************)
EXTENDS Integers, Sequences, FiniteSets, TLC

VARIABLES reg, objs, last, nOps, nDefs

vars == <<reg, objs, last, nOps, nDefs>>

(* ---- bounds of the model ---- *)

\* number of library calls in one run
MaxOps == 3

\* number of defineType calls in one run
MaxDefs == 2

(* ---- JavaScript values ---- *)

\* property names that occur in the runs
Names == {"constructor", "constuctor", "speak", "name", "toString"}

\* the constructors callers pass as the type ("constructor" parameter)
Ids == {"D", "E", "Object"}

\* the constructors defineType is called on; "E" is never defined
DefIds == {"D", "Object"}

\* the objects callers pass
ObjIds == {"o1", "o2"}

Undefined == [t |-> "undefined", name |-> "", id |-> 0]

\* a function value: its .name and an identity that tells two functions
\* of the same name apart
Fn(nm, i) == [t |-> "function", name |-> nm, id |-> i]

\* a constructor function, e.g. function D() {}, Object, Array
Ctor(nm) == [t |-> "function", name |-> nm, id |-> 0]

\* a string value
Str(i) == [t |-> "string", name |-> "", id |-> i]

speak1 == Fn("speak", 1)
speak2 == Fn("speak", 2)
anon   == Fn("", 3)
g      == Fn("g", 4)
h      == Fn("h", 5)
Rex    == Str(1)

\* typeof v
TypeOf(v) == v.t

\* the truthiness of v, as in (v ? a : b) and !v
Truthy(v) == v.t # "undefined"

NoFields == [n \in Names |-> Undefined]

(* ---- objects and their prototypes ---- *)

\* Object.prototype.toString.call(arg) === "[object Array]"
isArray(arg) == arg.kind = "array"

\* the properties an object inherits: constructor and toString
Proto(obj) ==
    [n \in Names |->
        IF n = "constructor" THEN (IF isArray(obj) THEN Ctor("Array") ELSE Ctor("Object"))
        ELSE IF n = "toString" THEN Fn("toString", 0)
        ELSE Undefined]

\* obj[n]: the own property, else the inherited one
Get(obj, n) == IF obj.own[n] # Undefined THEN obj.own[n] ELSE Proto(obj)[n]

(* ---- the maps on a constructor ---- *)

\* constructor._typeMethods / constructor._typeProps before any defineType
NoMap == [plain |-> FALSE, keys |-> NoFields]

\* the {} that defineType creates
EmptyMap == [plain |-> TRUE, keys |-> NoFields]

\* Object.prototype.toString.call(arg) === "[object Object]" && !arg.nodeType
isPlainObject(arg) == arg.plain

\* the names a for-in loop over the map visits (none when it is undefined)
ForIn(map) == IF map.plain THEN {n \in Names : map.keys[n] # Undefined} ELSE {}

Caps(c) == ForIn(reg[c].typeMethods)
Props(c) == ForIn(reg[c].typeProps)

(* ---- defineType ---- *)

\* a check that forgets the name
InvalidNamed_TypeOnly(func) == TypeOf(func) # "function"

\* typeof func !== 'function' || !func.name
InvalidNamed(func) == TypeOf(func) # "function" \/ func.name = ""

\* a defineType that validates every element before it registers any
RegisterNamed_ValidateFirst(methods, named_funcs, i) ==
    [keys |-> IF \E j \in i..Len(named_funcs) : InvalidNamed(named_funcs[j])
              THEN methods
              ELSE [n \in Names |->
                      IF \E j \in i..Len(named_funcs) : named_funcs[j].name = n
                      THEN named_funcs[CHOOSE j \in i..Len(named_funcs) :
                                          /\ named_funcs[j].name = n
                                          /\ \A k \in (j + 1)..Len(named_funcs) :
                                                named_funcs[k].name # n]
                      ELSE methods[n]],
     threw |-> \E j \in i..Len(named_funcs) : InvalidNamed(named_funcs[j])]

\* a first loop that keeps the function already registered under a name
RegisterNamed_FirstWins(methods, named_funcs, i) ==
    LET bad == {j \in i..Len(named_funcs) : InvalidNamed(named_funcs[j])}
        stop == IF bad = {} THEN Len(named_funcs) + 1
                ELSE CHOOSE j \in bad : \A k \in bad : j <= k
    IN  [keys |-> [n \in Names |->
                     IF methods[n] # Undefined THEN methods[n]
                     ELSE IF \E j \in i..(stop - 1) : named_funcs[j].name = n
                     THEN named_funcs[CHOOSE j \in i..(stop - 1) :
                                         /\ named_funcs[j].name = n
                                         /\ \A k \in i..(j - 1) : named_funcs[k].name # n]
                     ELSE Undefined],
         threw |-> bad # {}]

\* the first loop of defineType from index i on: registers each function
\* under its name until the end or the first invalid element, where it throws
RECURSIVE RegisterNamed(_, _, _)
RegisterNamed(methods, named_funcs, i) ==
    IF i > Len(named_funcs) THEN [keys |-> methods, threw |-> FALSE]
    ELSE IF InvalidNamed(named_funcs[i]) THEN [keys |-> methods, threw |-> TRUE]
    ELSE RegisterNamed([methods EXCEPT ![named_funcs[i].name] = named_funcs[i]],
                       named_funcs, i + 1)

\* a second loop that leaves a name alone when a function is registered under it
RegisterRenamed_NamedWins(methods, renamed_funcs) ==
    [n \in Names |-> IF methods[n] # Undefined THEN methods[n] ELSE renamed_funcs[n]]

\* the second loop: every key of renamed_funcs is stored under that key
RegisterRenamed(methods, renamed_funcs) ==
    [n \in Names |-> IF renamed_funcs[n] # Undefined THEN renamed_funcs[n] ELSE methods[n]]

\* the third loop: every prop name is stored with the value true
RegisterProps(props, prop_names) ==
    [n \in Names |->
        IF \E i \in 1..Len(prop_names) : prop_names[i] = n THEN Str(0) ELSE props[n]]

\* the maps of the constructor after defineType, and whether it threw
defineType(desc, named_funcs, prop_names, renamed_funcs) ==
    LET m0 == IF isPlainObject(desc.typeMethods) THEN desc.typeMethods ELSE EmptyMap
        p0 == IF isPlainObject(desc.typeProps) THEN desc.typeProps ELSE EmptyMap
        r  == RegisterNamed(m0.keys, named_funcs, 1)
    IN  IF r.threw
        THEN [desc |-> [typeMethods |-> [plain |-> TRUE, keys |-> r.keys],
                        typeProps |-> p0],
              threw |-> TRUE]
        ELSE [desc |-> [typeMethods |-> [plain |-> TRUE,
                                         keys |-> RegisterRenamed(r.keys, renamed_funcs)],
                        typeProps |-> [plain |-> TRUE,
                                       keys |-> RegisterProps(p0.keys, prop_names)]],
              threw |-> FALSE]

(* ---- becomeType ---- *)

\* the property becomeType stores the constructor in
BecomeField == "constuctor"

\* a becomeType whose loop copies nothing
becomeType_SkipMethods(base, methods, constructor) ==
    [base EXCEPT !.own[BecomeField] = Ctor(constructor)]

\* a becomeType whose loop stores the method's name, base[func] = func
becomeType_CopyKeys(base, methods, constructor) ==
    LET copied == [n \in Names |->
                      IF n \in ForIn(methods) THEN Str(2) ELSE base.own[n]]
    IN  [base EXCEPT !.own = [copied EXCEPT ![BecomeField] = Ctor(constructor)]]

\* a becomeType that moves the constructor stored earlier into obj.constructor
becomeType_ShiftIdentity(base, methods, constructor) ==
    LET copied == [n \in Names |->
                      IF n \in ForIn(methods) THEN methods.keys[n] ELSE base.own[n]]
        shifted == IF base.own[BecomeField] # Undefined
                   THEN [copied EXCEPT !["constructor"] = base.own[BecomeField]]
                   ELSE copied
    IN  [base EXCEPT !.own = [shifted EXCEPT ![BecomeField] = Ctor(constructor)]]

\* base after becomeType(base, constructor), methods being constructor._typeMethods
becomeType(base, methods, constructor) ==
    LET copied == [n \in Names |->
                      IF n \in ForIn(methods) THEN methods.keys[n] ELSE base.own[n]]
    IN  [base EXCEPT !.own = [copied EXCEPT ![BecomeField] = Ctor(constructor)]]

(* ---- isType ---- *)

\* the property isType compares and renounceType resets
ConstructorField == "constructor"

\* an isType without the loop over the methods
isType_NominalOnly(obj, methods, constructor) ==
    Get(obj, ConstructorField) = Ctor(constructor)

\* whether isType(obj, constructor) is true, methods being constructor._typeMethods
isType(obj, methods, constructor) ==
    IF Get(obj, ConstructorField) = Ctor(constructor) THEN TRUE
    ELSE \A method \in ForIn(methods) : TypeOf(Get(obj, method)) = "function"

(* ---- renounceType ---- *)

\* a fallback inference with the two baselines swapped
NewConstructor_Swapped(obj, new_constructor) ==
    IF Truthy(new_constructor) THEN new_constructor
    ELSE IF isArray(obj) THEN Ctor("Object") ELSE Ctor("Array")

\* what renounceType stores in obj.constructor
NewConstructor(obj, new_constructor) ==
    IF Truthy(new_constructor) THEN new_constructor
    ELSE IF isArray(obj) THEN Ctor("Array") ELSE Ctor("Object")

\* a renounceType without the first loop
renounceType_KeepMethods(obj, methods, props, new_constructor) ==
    LET deleted == [n \in Names |-> IF n \in ForIn(props) THEN Undefined ELSE obj.own[n]]
        after == [obj EXCEPT !.own = deleted]
    IN  [after EXCEPT !.own[ConstructorField] = NewConstructor(after, new_constructor)]

\* a renounceType without the second loop
renounceType_KeepProps(obj, methods, props, new_constructor) ==
    LET deleted == [n \in Names |-> IF n \in ForIn(methods) THEN Undefined ELSE obj.own[n]]
        after == [obj EXCEPT !.own = deleted]
    IN  [after EXCEPT !.own[ConstructorField] = NewConstructor(after, new_constructor)]

\* a renounceType that also deletes the property becomeType stored the constructor in
renounceType_DeleteBecomeField(obj, methods, props, new_constructor) ==
    LET deleted == [n \in Names |->
                       IF n \in ForIn(methods) \cup ForIn(props) \cup {BecomeField}
                       THEN Undefined ELSE obj.own[n]]
        after == [obj EXCEPT !.own = deleted]
    IN  [after EXCEPT !.own[ConstructorField] = NewConstructor(after, new_constructor)]

\* obj after renounceType(obj, constructor, new_constructor)
renounceType(obj, methods, props, new_constructor) ==
    LET deleted == [n \in Names |->
                       IF n \in ForIn(methods) \cup ForIn(props) THEN Undefined
                       ELSE obj.own[n]]
        after == [obj EXCEPT !.own = deleted]
    IN  [after EXCEPT !.own[ConstructorField] = NewConstructor(after, new_constructor)]

(* ---- the calls ---- *)

NoRenamed == NoFields
Renamed(n, f) == [NoFields EXCEPT ![n] = f]

\* the arguments of the defineType calls of a run
DefineInputs ==
    { [named |-> <<speak1>>,         props |-> <<"name">>,        renamed |-> NoRenamed],
      [named |-> <<speak2>>,         props |-> <<>>,              renamed |-> NoRenamed],
      [named |-> <<speak1, speak2>>, props |-> <<>>,              renamed |-> NoRenamed],
      [named |-> <<speak2>>,         props |-> <<"name">>,        renamed |-> Renamed("toString", g)],
      [named |-> <<speak1>>,         props |-> <<>>,              renamed |-> Renamed("speak", g)],
      [named |-> <<>>,               props |-> <<>>,              renamed |-> Renamed("constuctor", g)],
      [named |-> <<>>,               props |-> <<>>,              renamed |-> Renamed("constructor", g)],
      [named |-> <<>>,               props |-> <<"constructor">>, renamed |-> NoRenamed],
      [named |-> <<>>,               props |-> <<>>,              renamed |-> Renamed("toString", g)],
      [named |-> <<>>,               props |-> <<>>,              renamed |-> NoRenamed],
      [named |-> <<anon>>,           props |-> <<"name">>,        renamed |-> Renamed("speak", g)],
      [named |-> <<Rex>>,            props |-> <<>>,              renamed |-> NoRenamed],
      [named |-> <<speak1, anon>>,   props |-> <<"name">>,        renamed |-> Renamed("constructor", g)],
      [named |-> <<speak2, Rex>>,    props |-> <<"name">>,        renamed |-> NoRenamed] }

\* the third argument of renounceType: omitted, or a constructor
Fallbacks == {Undefined, Ctor("D"), Ctor("E")}

NoCall ==
    [op |-> "none", obj |-> "", id |-> "", fb |-> Undefined,
     named |-> <<>>, props |-> <<>>, renamed |-> NoRenamed,
     threw |-> FALSE, retObj |-> "", retBool |-> FALSE, rep |-> FALSE,
     preObjs |-> [o \in ObjIds |-> [kind |-> "record", own |-> NoFields]],
     preReg |-> [c \in Ids |-> [typeMethods |-> NoMap, typeProps |-> NoMap]]]

\* the fields the record o1 has before the first call: { name: "Rex" }, with
\* or without a function speak of its own
InitOwn ==
    { [NoFields EXCEPT !["name"] = Rex],
      [NoFields EXCEPT !["name"] = Rex, !["speak"] = h] }

\* the fields the array o2 has before the first call: a string under speak
InitOwnArray == [NoFields EXCEPT !["speak"] = Rex]

Init ==
    /\ reg = [c \in Ids |-> [typeMethods |-> NoMap, typeProps |-> NoMap]]
    /\ \E own1 \in InitOwn :
          objs = [o \in ObjIds |->
                    IF o = "o1" THEN [kind |-> "record", own |-> own1]
                    ELSE [kind |-> "array", own |-> InitOwnArray]]
    /\ last = NoCall
    /\ nOps = 0
    /\ nDefs = 0

\* a defineType with a live link: it also rewrites the methods of every object
\* that becomeType extended with the constructor
DefineType_LiveLink(constructor, named_funcs, prop_names, renamed_funcs) ==
    /\ nOps < MaxOps
    /\ nDefs < MaxDefs
    /\ LET r == defineType(reg[constructor], named_funcs, prop_names, renamed_funcs)
       IN  /\ reg' = [reg EXCEPT ![constructor] = r.desc]
           /\ objs' = [o \in ObjIds |->
                          IF objs[o].own[BecomeField] = Ctor(constructor)
                          THEN becomeType(objs[o], r.desc.typeMethods, constructor)
                          ELSE objs[o]]
           /\ last' = [NoCall EXCEPT !.op = "defineType", !.id = constructor,
                                     !.named = named_funcs, !.props = prop_names,
                                     !.renamed = renamed_funcs, !.threw = r.threw,
                                     !.preObjs = objs, !.preReg = reg]
    /\ nOps' = nOps + 1
    /\ nDefs' = nDefs + 1

\* plastic.defineType(constructor, named_funcs, prop_names, renamed_funcs)
DefineType(constructor, named_funcs, prop_names, renamed_funcs) ==
    /\ nOps < MaxOps
    /\ nDefs < MaxDefs
    /\ LET r == defineType(reg[constructor], named_funcs, prop_names, renamed_funcs)
       IN  /\ reg' = [reg EXCEPT ![constructor] = r.desc]
           /\ last' = [NoCall EXCEPT !.op = "defineType", !.id = constructor,
                                     !.named = named_funcs, !.props = prop_names,
                                     !.renamed = renamed_funcs, !.threw = r.threw,
                                     !.preObjs = objs, !.preReg = reg]
    /\ nOps' = nOps + 1
    /\ nDefs' = nDefs + 1
    /\ UNCHANGED objs

\* a becomeType that writes the methods where every object sees them
BecomeType_AllObjects(base, constructor) ==
    /\ nOps < MaxOps
    /\ objs' = [o \in ObjIds |->
                  IF o = base
                  THEN becomeType(objs[o], reg[constructor].typeMethods, constructor)
                  ELSE [objs[o] EXCEPT !.own =
                           [n \in Names |->
                              IF n \in ForIn(reg[constructor].typeMethods)
                              THEN reg[constructor].typeMethods.keys[n]
                              ELSE objs[o].own[n]]]]
    /\ last' = [NoCall EXCEPT !.op = "becomeType", !.obj = base, !.id = constructor,
                              !.retObj = base,
                              !.rep = (last.op = "becomeType" /\ last.obj = base
                                       /\ last.id = constructor),
                              !.preObjs = objs, !.preReg = reg]
    /\ nOps' = nOps + 1
    /\ UNCHANGED <<reg, nDefs>>

\* plastic.becomeType(base, constructor)
BecomeType(base, constructor) ==
    /\ nOps < MaxOps
    /\ objs' = [objs EXCEPT ![base] =
                   becomeType(objs[base], reg[constructor].typeMethods, constructor)]
    /\ last' = [NoCall EXCEPT !.op = "becomeType", !.obj = base, !.id = constructor,
                              !.retObj = base,
                              !.rep = (last.op = "becomeType" /\ last.obj = base
                                       /\ last.id = constructor),
                              !.preObjs = objs, !.preReg = reg]
    /\ nOps' = nOps + 1
    /\ UNCHANGED <<reg, nDefs>>

\* an isType that creates the empty maps of a constructor that has none
IsType_LazyCreate(obj, constructor) ==
    /\ nOps < MaxOps
    /\ reg' = [reg EXCEPT ![constructor] =
                  [typeMethods |-> IF isPlainObject(@.typeMethods) THEN @.typeMethods
                                   ELSE EmptyMap,
                   typeProps |-> IF isPlainObject(@.typeProps) THEN @.typeProps
                                 ELSE EmptyMap]]
    /\ last' = [NoCall EXCEPT !.op = "isType", !.obj = obj, !.id = constructor,
                              !.retBool = isType(objs[obj], reg[constructor].typeMethods,
                                                 constructor),
                              !.preObjs = objs, !.preReg = reg]
    /\ nOps' = nOps + 1
    /\ UNCHANGED <<objs, nDefs>>

\* plastic.isType(obj, constructor)
IsType(obj, constructor) ==
    /\ nOps < MaxOps
    /\ last' = [NoCall EXCEPT !.op = "isType", !.obj = obj, !.id = constructor,
                              !.retBool = isType(objs[obj], reg[constructor].typeMethods,
                                                 constructor),
                              !.preObjs = objs, !.preReg = reg]
    /\ nOps' = nOps + 1
    /\ UNCHANGED <<reg, objs, nDefs>>

\* plastic.renounceType(obj, constructor, new_constructor)
RenounceType(obj, constructor, new_constructor) ==
    /\ nOps < MaxOps
    /\ objs' = [objs EXCEPT ![obj] =
                   renounceType(objs[obj], reg[constructor].typeMethods,
                                reg[constructor].typeProps, new_constructor)]
    /\ last' = [NoCall EXCEPT !.op = "renounceType", !.obj = obj, !.id = constructor,
                              !.fb = new_constructor, !.retObj = obj,
                              !.preObjs = objs, !.preReg = reg]
    /\ nOps' = nOps + 1
    /\ UNCHANGED <<reg, nDefs>>

DefineTypeCall ==
    \E c \in DefIds, a \in DefineInputs : DefineType(c, a.named, a.props, a.renamed)

BecomeTypeCall == \E o \in ObjIds, c \in Ids : BecomeType(o, c)

IsTypeCall == \E o \in ObjIds, c \in Ids : IsType(o, c)

RenounceTypeCall ==
    \E o \in ObjIds, c \in Ids, f \in Fallbacks : RenounceType(o, c, f)

Next == DefineTypeCall \/ BecomeTypeCall \/ IsTypeCall \/ RenounceTypeCall

Spec == Init /\ [][Next]_vars

(* ---- the properties ---- *)

\* the object and the maps the last call worked on
LastObj == objs[last.obj]
PreObj == last.preObjs[last.obj]
PreMethods == last.preReg[last.id].typeMethods
PreProps == last.preReg[last.id].typeProps
PreCaps == ForIn(PreMethods)
PreTracked == ForIn(PreProps)

C2_BecomeSetsTypeIdentity ==
    last.op = "becomeType" => Get(LastObj, ConstructorField) = Ctor(last.id)

\* C3: for D with at least one capability and T with no field of its own under
\* any of D's capability names, isType(becomeType(T, D), D) is true.
C3_IsTypeAfterBecome ==
    (/\ last.op = "becomeType"
     /\ PreCaps # {}
     /\ \A n \in PreCaps : PreObj.own[n] = Undefined)
    => isType(LastObj, reg[last.id].typeMethods, last.id)

C3_Witness ==
    /\ last.op = "becomeType"
    /\ PreCaps # {}
    /\ \A n \in PreCaps : PreObj.own[n] = Undefined
    /\ ~isType(PreObj, PreMethods, last.id)
    /\ isType(LastObj, reg[last.id].typeMethods, last.id)

\* C4, as stated: for D with at least one capability, after
\* renounceType(obj, D, fallback) isType(obj, D) is false, whatever the fallback.
C4_NotTypeAfterRenounce ==
    (last.op = "renounceType" /\ PreCaps # {})
    => ~isType(LastObj, reg[last.id].typeMethods, last.id)

\* the constructor renounceType is asked to store: the fallback when one is
\* supplied, else Array for an array and Object for any other object
StoredIdentity ==
    IF last.fb # Undefined THEN last.fb
    ELSE IF PreObj.kind = "array" THEN Ctor("Array") ELSE Ctor("Object")

\* C4, amended: after renounceType(obj, D, fallback) isType(obj, D) is false
\* provided the constructor stored (the fallback, else the inferred baseline)
\* is not D and D has a capability whose name is not "constructor" and is not
\* a function obj inherits from its prototype.
C4_NotTypeAfterRenounceUnlessStoredOrInherited ==
    (/\ last.op = "renounceType"
     /\ StoredIdentity # Ctor(last.id)
     /\ \E n \in PreCaps : /\ n # "constructor"
                           /\ TypeOf(Proto(PreObj)[n]) # "function")
    => ~isType(LastObj, reg[last.id].typeMethods, last.id)

C4_Witness ==
    /\ last.op = "renounceType"
    /\ StoredIdentity # Ctor(last.id)
    /\ \E n \in PreCaps : n # "constructor" /\ TypeOf(Proto(PreObj)[n]) # "function"
    /\ isType(PreObj, PreMethods, last.id)
    /\ ~isType(LastObj, reg[last.id].typeMethods, last.id)

\* C5, as stated: after renounceType(obj, D, ...) no capability name and no
\* tracked-property name of D is a field of obj, "constructor" included.
C5_NoRegisteredNameRemains ==
    last.op = "renounceType" =>
        \A n \in PreCaps \cup PreTracked : LastObj.own[n] = Undefined

\* C5, amended: after renounceType(obj, D, ...) no capability name and no
\* tracked-property name of D other than "constructor" is a field of obj;
\* "constructor" is always a field of obj afterwards, because the reset of
\* the constructor follows the deletions.
C5_NoRegisteredNameRemainsExceptConstructor ==
    last.op = "renounceType" =>
        /\ \A n \in (PreCaps \cup PreTracked) \ {"constructor"} :
              LastObj.own[n] = Undefined
        /\ LastObj.own["constructor"] # Undefined

C5_Witness ==
    /\ last.op = "renounceType"
    /\ \E n \in PreCaps \ {"constructor"} :
          PreObj.own[n] # Undefined /\ LastObj.own[n] = Undefined
    /\ \E n \in PreTracked \ (PreCaps \cup {"constructor"}) :
          PreObj.own[n] # Undefined /\ LastObj.own[n] = Undefined

\* C6: renounceType(obj, D, fallback) stores the fallback in obj.constructor
\* when one is supplied, else Array when obj is an array and Object otherwise,
\* and returns obj.
C6_RenounceResetsConstructor ==
    last.op = "renounceType" =>
        /\ last.fb # Undefined => LastObj.own["constructor"] = last.fb
        /\ (last.fb = Undefined /\ PreObj.kind = "array")
              => LastObj.own["constructor"] = Ctor("Array")
        /\ (last.fb = Undefined /\ PreObj.kind # "array")
              => LastObj.own["constructor"] = Ctor("Object")
        /\ last.retObj = last.obj

C6_Witness ==
    /\ last.op = "renounceType"
    /\ last.fb = Undefined
    /\ PreObj.kind = "array"
    /\ PreObj.own["constructor"] # Ctor("Array")
    /\ LastObj.own["constructor"] = Ctor("Array")

\* C7: renounceType(obj, D, ...) neither removes nor changes any field of obj
\* whose name is neither a capability name nor a tracked-property name of D,
\* other than "constructor", and it leaves the maps of every constructor as
\* they were.
C7_RenounceFrame ==
    last.op = "renounceType" =>
        /\ \A n \in Names \ (PreCaps \cup PreTracked \cup {"constructor"}) :
              LastObj.own[n] = PreObj.own[n]
        /\ LastObj.kind = PreObj.kind
        /\ reg = last.preReg

C7_Witness ==
    /\ last.op = "renounceType"
    /\ \E n \in PreCaps \cup PreTracked : PreObj.own[n] # Undefined
    /\ \E n \in Names \ (PreCaps \cup PreTracked \cup {"constructor"}) :
          PreObj.own[n] # Undefined
    /\ PreObj.own[BecomeField] # Undefined
    /\ BecomeField \notin PreCaps \cup PreTracked

\* C8: becomeType(T, D) neither removes, adds nor changes any field of T whose
\* name is not a capability name of D, apart from the type-identity field
\* "constructor": it writes D's capability names and that field, nothing else.
C8_BecomeFrame ==
    last.op = "becomeType" =>
        \A n \in Names \ (PreCaps \cup {ConstructorField}) :
            LastObj.own[n] = PreObj.own[n]

\* C9: a second becomeType(T, D) right after becomeType(T, D) leaves every
\* field of T as the first call left it.
C9_BecomeIdempotent ==
    (last.op = "becomeType" /\ last.rep) => objs = last.preObjs

C9_Witness ==
    /\ last.op = "becomeType"
    /\ last.rep
    /\ "speak" \in PreCaps
    /\ LastObj.own["speak"] = PreMethods.keys["speak"]
    /\ LastObj.own[BecomeField] = Ctor(last.id)

\* the index of the first element of named_funcs that is no named function
FirstInvalid ==
    CHOOSE i \in 1..Len(last.named) :
        /\ InvalidNamed(last.named[i])
        /\ \A j \in 1..(i - 1) : ~InvalidNamed(last.named[j])

\* C10, as stated: when defineType throws, the capability map and the
\* tracked-property set hold exactly what they held before the call.
C10_DefineAllOrNothing ==
    (last.op = "defineType" /\ last.threw) =>
        /\ reg[last.id].typeMethods.keys = PreMethods.keys
        /\ reg[last.id].typeProps.keys = PreProps.keys

\* C10, amended: when defineType throws at the first element of named_funcs
\* that is not a named function, every earlier element of that call is
\* registered under its name (the last of a name wins), every other capability
\* is as before, and nothing of renamed_funcs or prop_names is registered; so
\* the content is as before the call only when the first element is the
\* offending one.
C10_DefineKeepsEarlierOnError ==
    (last.op = "defineType" /\ last.threw) =>
        /\ \A n \in Names :
              reg[last.id].typeMethods.keys[n] =
                 IF \E j \in 1..(FirstInvalid - 1) : last.named[j].name = n
                 THEN last.named[CHOOSE j \in 1..(FirstInvalid - 1) :
                                    /\ last.named[j].name = n
                                    /\ \A k \in (j + 1)..(FirstInvalid - 1) :
                                          last.named[k].name # n]
                 ELSE PreMethods.keys[n]
        /\ reg[last.id].typeProps.keys = PreProps.keys
        /\ FirstInvalid = 1 => reg[last.id].typeMethods.keys = PreMethods.keys

C10_Witness ==
    /\ last.op = "defineType"
    /\ last.threw
    /\ FirstInvalid = 2
    /\ reg[last.id].typeMethods.keys["speak"] = last.named[1]
    /\ PreMethods.keys["speak"] # last.named[1]
    /\ PreMethods.plain

\* the last element of named_funcs whose name is n
LastNamed(n) ==
    last.named[CHOOSE j \in 1..Len(last.named) :
                  /\ last.named[j].name = n
                  /\ \A k \in (j + 1)..Len(last.named) : last.named[k].name # n]

\* C11: a defineType call whose named_funcs are all named functions raises no
\* error, and afterwards every name maps to the function registered for it
\* last: the renamed_funcs entry of this call, else the last element of
\* named_funcs of that name, else what an earlier call registered.
C11_LastWriteWins ==
    (/\ last.op = "defineType"
     /\ \A j \in 1..Len(last.named) :
           TypeOf(last.named[j]) = "function" /\ last.named[j].name # "")
    => /\ ~last.threw
       /\ \A n \in Names :
             reg[last.id].typeMethods.keys[n] =
                IF last.renamed[n] # Undefined THEN last.renamed[n]
                ELSE IF \E j \in 1..Len(last.named) : last.named[j].name = n
                THEN LastNamed(n)
                ELSE PreMethods.keys[n]

C11_Witness ==
    /\ last.op = "defineType"
    /\ ~last.threw
    /\ last.named = <<speak1, speak2>>
    /\ PreMethods.keys["speak"] = g
    /\ reg[last.id].typeMethods.keys["speak"] = speak2

\* C12: when named_funcs has a function named x and renamed_funcs has a key
\* x, then after a defineType call that returns, x maps to the function of
\* renamed_funcs.
C12_RenamePrecedence ==
    (last.op = "defineType" /\ ~last.threw) =>
        \A x \in Names :
            (/\ \E j \in 1..Len(last.named) : last.named[j].name = x
             /\ last.renamed[x] # Undefined)
            => reg[last.id].typeMethods.keys[x] = last.renamed[x]

C12_Witness ==
    /\ last.op = "defineType"
    /\ ~last.threw
    /\ last.named = <<speak1>>
    /\ last.renamed["speak"] = g
    /\ reg[last.id].typeMethods.keys["speak"] = g

\* C13: a defineType call on D changes no field of any object, in particular
\* of none that becomeType extended with D before: the object keeps the
\* functions it received and gains none of the names registered now.
C13_DefineLeavesObjects ==
    last.op = "defineType" => objs = last.preObjs

C13_Witness ==
    /\ last.op = "defineType"
    /\ \E o \in ObjIds :
          /\ objs[o].own[BecomeField] = Ctor(last.id)
          /\ \E n \in PreCaps :
                /\ objs[o].own[n] = PreMethods.keys[n]
                /\ reg[last.id].typeMethods.keys[n] # PreMethods.keys[n]
          /\ \E n \in Caps(last.id) \ PreCaps : objs[o].own[n] = Undefined

\* C14: isType(obj, identity) changes no field of any object and nothing on
\* any constructor; it creates no map for a constructor that has none.
C14_IsTypePure ==
    last.op = "isType" => (objs = last.preObjs /\ reg = last.preReg)

C14_Witness ==
    /\ last.op = "isType"
    /\ ~isPlainObject(reg[last.id].typeMethods)
    /\ ~isPlainObject(reg[last.id].typeProps)
    /\ last.retBool

\* the constructor of the last call was never passed to defineType
Unregistered ==
    /\ ~isPlainObject(PreMethods)
    /\ ~isPlainObject(PreProps)

\* C15: with a constructor never passed to defineType, becomeType adds no
\* field but the type-identity field "constructor", which it sets to the
\* constructor, and returns the target; isType returns true; renounceType
\* deletes no field, resets "constructor" and returns the object.
C15_UnregisteredIsEmpty ==
    /\ (last.op = "becomeType" /\ Unregistered) =>
          /\ LastObj.own = [PreObj.own EXCEPT ![ConstructorField] = Ctor(last.id)]
          /\ last.retObj = last.obj
    /\ (last.op = "isType" /\ Unregistered) => last.retBool
    /\ (last.op = "renounceType" /\ Unregistered) =>
          /\ LastObj.own = [PreObj.own EXCEPT ![ConstructorField] = StoredIdentity]
          /\ last.retObj = last.obj

\* C16: isType(obj, D) returns true exactly when obj.constructor is D or every
\* capability name registered under D is a property of obj that holds a
\* function.
C16_IsTypeNominalOrStructural ==
    last.op = "isType" =>
        (last.retBool <=>
            \/ Get(PreObj, "constructor") = Ctor(last.id)
            \/ \A n \in PreCaps : TypeOf(Get(PreObj, n)) = "function")

C16_Witness ==
    /\ last.op = "isType"
    /\ last.retBool
    /\ PreCaps # {}
    /\ Get(PreObj, "constructor") # Ctor(last.id)
    /\ PreObj.own[BecomeField] = Undefined
    /\ \E n \in PreCaps : /\ TypeOf(PreObj.own[n]) = "function"
                          /\ PreObj.own[n] # PreMethods.keys[n]

\* the object a becomeType or renounceType call c makes of obj
Applied(c, obj) ==
    IF c.op = "becomeType"
    THEN becomeType(obj, reg[c.id].typeMethods, c.id)
    ELSE renounceType(obj, reg[c.id].typeMethods, reg[c.id].typeProps, c.fb)

OnObject(c) == c.op \in {"becomeType", "renounceType"}

\* C17: a becomeType or renounceType call on A changes no other object and
\* nothing on any constructor; and two consecutive such calls, on A and then
\* on a different B, end in the state that the same calls end in when the
\* call on B is made first.
C17_DifferentObjectsIndependent ==
    [][ OnObject(last') =>
          /\ \A o \in ObjIds \ {last'.obj} : objs'[o] = objs[o]
          /\ reg' = reg
          /\ (OnObject(last) /\ last.obj # last'.obj) =>
                LET first  == [last.preObjs EXCEPT ![last'.obj] = Applied(last', @)]
                    second == [first EXCEPT ![last.obj] = Applied(last, @)]
                IN  objs' = second /\ reg' = last.preReg
      ]_vars

C17_Witness ==
    /\ OnObject(last)
    /\ LastObj # PreObj
    /\ \E o \in ObjIds \ {last.obj} :
          /\ objs[o].own[BecomeField] # Undefined
          /\ objs[o] = last.preObjs[o]
    /\ Caps(last.id) # {}

\* C18: defineType throws exactly when some element of named_funcs is no
\* function or has no name; it returns when all are named functions, also
\* with a name twice in the list or registered before.
C18_DefineThrowsIffInvalid ==
    last.op = "defineType" =>
        (last.threw <=>
            \E j \in 1..Len(last.named) :
                TypeOf(last.named[j]) # "function" \/ last.named[j].name = "")

C18_Witness ==
    /\ last.op = "defineType"
    /\ last.threw
    /\ last.named = <<speak1, anon>>
    /\ PreMethods.keys["speak"] = speak2

\* C19: once becomeType(T, D) has been called, isType(T, D) is still true
\* after a following defineType call on D, whatever it registers.
C19_MemberAfterLaterDefine ==
    [][ (/\ last.op = "becomeType"
         /\ last'.op = "defineType"
         /\ last'.id = last.id)
        => isType(objs'[last.obj], reg'[last.id].typeMethods, last.id) ]_vars

\* C20: for T with no field of its own under a capability or tracked-property
\* name of D, renounceType(becomeType(T, D), D) leaves T with the fields and
\* values it had before becomeType, apart from "constructor".
C20_BecomeRenounceRoundTrip ==
    [][ (/\ last.op = "becomeType"
         /\ last'.op = "renounceType"
         /\ last'.obj = last.obj
         /\ last'.id = last.id
         /\ \A n \in Caps(last.id) \cup Props(last.id) :
               last.preObjs[last.obj].own[n] = Undefined)
        => \A n \in Names \ {"constructor"} :
              objs'[last.obj].own[n] = last.preObjs[last.obj].own[n] ]_vars

====
